---------------------------- MODULE Spec2Model ----------------------------
(***************************************************************************)
(* State-machine model of the accessibility sidebar widget.                *)
(*                                                                         *)
(* The widget is a React function component (accessibility-sidebar-        *)
(* enhanced.js, the dependency-free script variant; unnamed/part_002 is    *)
(* the JSX variant of the same component).  JavaScript runs each event     *)
(* handler, effect, timer callback and speech-engine callback to           *)
(* completion, so each of them is one action.  React re-renders after      *)
(* every handler, so a handler always reads the state left by the          *)
(* previous one; what a closure captured at an earlier render (the chunks  *)
(* and index of a playback session, the isReading of the JSX variant's     *)
(* speakNext) is modelled per session.                                     *)
(*                                                                         *)
(* The specifications share the variables:                                 *)
(*   SpecSettings  mount (load effect, save effect), the settings          *)
(*                 handlers and reset, over every kind of stored record;   *)
(*   SpecDom       the class functions applied to any body;                *)
(*   Spec          the read-aloud state machine of the script variant:     *)
(*                 sessions, timers, the speech engine's queue and its     *)
(*                 callbacks (FairSpec: timers fire);                      *)
(*   SpecStart     start() over every text;                                *)
(*   SpecSpeech    Spec with the speech-rate and the voice button;         *)
(*   SpecUi        the whole widget from its mount, driven by clicks and   *)
(*                 key presses on its controls;                            *)
(*   SpecDrag      dragging and resizing;                                  *)
(*   SpecJsx       the JSX variant (FairSpecJsx: timers fire);             *)
(*   SpecNative    the settings of the native component in its host.       *)
(***************************************************************************)
EXTENDS Integers, Sequences, FiniteSets, TLC

(***************************************************************************)
(* Bounds of the model.                                                    *)
(***************************************************************************)
\* Playback sessions (calls of start()) in one behaviour.
MaxSessions == 2
\* Sentences of the longest page text.
MaxSentences == 3
\* Sentences of the longest page text read aloud in Spec.
MaxPageSentences == 2
\* Playback sessions in one behaviour of SpecUi.
MaxUiSessions == 1

(***************************************************************************)
(* JavaScript values.  A setting is held as the JavaScript value the code  *)
(* put there: the load effect stores whatever JSON.parse returned.         *)
(* Every value is a record [t, n] so that any two can be compared.         *)
(***************************************************************************)
Num(k) == [t |-> "num", n |-> k]
Bool(b) == [t |-> "bool", n |-> IF b THEN 1 ELSE 0]
\* The string holding the decimal numeral of k ("1" is Str(1)).
Str(k) == [t |-> "str", n |-> k]
\* A string that is no numeral ("abc").
StrX == [t |-> "strx", n |-> 0]
Null == [t |-> "null", n |-> 0]
Undefined == [t |-> "undef", n |-> 0]
NaN == [t |-> "nan", n |-> 0]

\* ToBoolean: what `if (v)` and `!v` see.
Truthy(v) ==
  CASE v.t = "num"  -> v.n # 0
    [] v.t = "bool" -> v.n = 1
    [] v.t = "str"  -> TRUE
    [] v.t = "strx" -> TRUE
    [] OTHER        -> FALSE

\* `!v`
JsNot(v) == Bool(~Truthy(v))

\* `(v + 1) % 3`: + concatenates when v is a string ("1" + 1 is "11"), and adds
\* ToNumber(v) otherwise; % converts its left operand back to a number.
JsPlus1Mod3(v) ==
  CASE v.t = "num"  -> Num((v.n + 1) % 3)
    [] v.t = "bool" -> Num((v.n + 1) % 3)
    [] v.t = "null" -> Num(1)
    [] v.t = "str"  -> Num((10 * v.n + 1) % 3)
    [] OTHER        -> NaN

\* JSON.stringify of a property value: NaN is written as null, an undefined
\* property is left out; JSON.parse gives back every other value unchanged.
JsonRoundTrip(v) == IF v.t = "nan" THEN Null ELSE v

(***************************************************************************)
(* State.                                                                  *)
(***************************************************************************)
VARIABLES
  \* --- settings (React state) ---
  fontSize,        \* 0: normal, 1: larger, 2: largest
  highContrast,
  lineHeight,      \* 0: normal, 1: larger, 2: largest
  speechRate,      \* index into rates: 0.6, 0.8, 1.0, 1.2
  bodyClasses,     \* document.body.classList
  \* --- persistence ---
  storage,         \* localStorage['accessibilitySettings']
  storage0,        \* (history) what storage held when the widget mounted
  loadOutcome,     \* (history) how the load effect ended
  saveOutcome,     \* (history) how the latest save effect ended
  mountPc,         \* which of the mount-time effects runs next
  \* --- read aloud ---
  isReading,       \* React state isReading
  isReadingRef,    \* isReadingRef.current
  readingProgress,
  notice,          \* the alert() the latest step raised, "none" if none
  nSessions,       \* start() calls that created a session so far
  chunks,          \* per session: its chunks (closure variable)
  currentIndex,    \* per session: closure variable currentIndex
  closureIsReading, \* per session: the isReading its closure holds
  dispatched,      \* (history) per session: indices handed to speak()
  timers,          \* pending setTimeout callbacks, oldest first
  engineQueue,     \* speechSynthesis queue: utterances, head is spoken
  headStarted,     \* the head utterance has fired onstart
  cancelled,       \* utterances removed by cancel(), callback not yet fired
  stopped,         \* (history) sessions the user stopped
  errored,         \* (history) sessions whose utterance the engine failed
  \* --- platform and panel ---
  hasSpeech,       \* window.speechSynthesis exists
  isPanelOpen,     \* React state isPanelOpen
  availableRomanianVoices, \* React state: how many voices the list holds
  selectedVoice,   \* React state: place in the list, 0 for null
  \* --- what speak() was given ---
  closureSpeechRate,    \* per session: the speechRate its closure holds
  closureSelectedVoice, \* per session: the selectedVoice its closure holds
  dispatchedSpeech, \* (history) per session: rate and voice of each utterance
  \* --- the host of the native component (AccessibilityExample) ---
  hostFontSize,
  hostHighContrast,
  hostLineHeight,
  \* --- dragging ---
  isMobile,        \* React state isMobile
  isDragging,      \* React state isDragging
  position,        \* React state position: {x, y}
  startPos,        \* React state startPos: {x, y}
  viewport         \* window.innerWidth (w) and window.innerHeight (h)

settingsVars == <<fontSize, highContrast, lineHeight, speechRate, bodyClasses,
                  storage, storage0, loadOutcome, saveOutcome, mountPc>>
\* What a session's closure holds from start() on, unchanged.
sessionClosure == <<chunks, closureIsReading, closureSpeechRate,
                    closureSelectedVoice>>
playbackVars == <<isReading, isReadingRef, readingProgress, nSessions,
                  sessionClosure, currentIndex, dispatched, timers, engineQueue,
                  headStarted, cancelled, stopped, errored>>
uiVars == <<hasSpeech, isPanelOpen, availableRomanianVoices, selectedVoice>>
hostVars == <<hostFontSize, hostHighContrast, hostLineHeight>>
dragVars == <<isMobile, isDragging, position, startPos, viewport>>
extVars == <<dispatchedSpeech, hostVars, dragVars>>
vars == <<settingsVars, playbackVars, notice, uiVars, extVars>>

(***************************************************************************)
(* Settings: DOM classes.                                                  *)
(***************************************************************************)
FontSizeClasses == {"font-size-larger", "font-size-largest"}
LineHeightClasses == {"line-height-larger", "line-height-largest"}
AllClasses == FontSizeClasses \cup LineHeightClasses \cup {"high-contrast"}

\* Mutant of applyFontSizeClass: the classList.remove is forgotten.
applyFontSizeClassNoRemove(classes, size) ==
  classes \cup
    (IF size = Num(1) THEN {"font-size-larger"}
     ELSE IF size = Num(2) THEN {"font-size-largest"} ELSE {})

\* classList.remove of both font-size classes, then add on === 1 / === 2.
applyFontSizeClass(classes, size) ==
  (classes \ FontSizeClasses) \cup
    (IF size = Num(1) THEN {"font-size-larger"}
     ELSE IF size = Num(2) THEN {"font-size-largest"} ELSE {})

\* Mutant of applyHighContrastClass: classList.toggle in place of add.
applyHighContrastClassToggles(classes, enabled) ==
  IF Truthy(enabled)
  THEN (classes \cup {"high-contrast"}) \ (classes \cap {"high-contrast"})
  ELSE classes \ {"high-contrast"}

applyHighContrastClass(classes, enabled) ==
  IF Truthy(enabled) THEN classes \cup {"high-contrast"}
  ELSE classes \ {"high-contrast"}

\* Mutant of applyLineHeightClass: every class of the widget is removed first.
applyLineHeightClassRemovesAll(classes, height) ==
  (classes \ AllClasses) \cup
    (IF height = Num(1) THEN {"line-height-larger"}
     ELSE IF height = Num(2) THEN {"line-height-largest"} ELSE {})

applyLineHeightClass(classes, height) ==
  (classes \ LineHeightClasses) \cup
    (IF height = Num(1) THEN {"line-height-larger"}
     ELSE IF height = Num(2) THEN {"line-height-largest"} ELSE {})

\* The three functions called one after the other, as the load effect calls
\* them for a record that holds the three properties.
applyAllClasses(classes, size, enabled, height) ==
  applyLineHeightClass(
    applyHighContrastClass(applyFontSizeClass(classes, size), enabled), height)

(***************************************************************************)
(* Settings: persistence.  storage is what getItem would return:           *)
(*   kind "missing"  no item under the key (getItem returns null)          *)
(*   kind "garbage"  a string JSON.parse throws on                         *)
(*   kind "null"     the string "null": parse gives null, and reading a    *)
(*                   property of null throws                               *)
(*   kind "object"   a JSON object; a property it lacks is Undefined       *)
(***************************************************************************)
NoRecord(kind) ==
  [kind |-> kind, fontSize |-> Undefined, highContrast |-> Undefined,
   lineHeight |-> Undefined]

StoredObject(fs, hc, lh) ==
  [kind |-> "object", fontSize |-> fs, highContrast |-> hc, lineHeight |-> lh]

\* The property values a stored record is drawn from: the legal ones, and one
\* representative of each way a value can be wrong.
LegalLevels == {Num(0), Num(1), Num(2)}
LegalFlags == {Bool(TRUE), Bool(FALSE)}
StoredFontSizes == LegalLevels \cup {Undefined, Null, Num(5), Str(1), StrX}
StoredContrasts == LegalFlags \cup {Undefined, Null, Str(1)}
StoredLineHeights == LegalLevels \cup {Undefined, Num(5)}

InitialStorages ==
  {NoRecord("missing"), NoRecord("garbage"), NoRecord("null")} \cup
  {StoredObject(fs, hc, lh) : fs \in StoredFontSizes, hc \in StoredContrasts,
                              lh \in StoredLineHeights}

\* JSON.stringify({fontSize, highContrast, lineHeight}) as setItem stores it.
SettingsRecord(fs, hc, lh) ==
  StoredObject(JsonRoundTrip(fs), JsonRoundTrip(hc), JsonRoundTrip(lh))


(***************************************************************************)
(* Settings: the mount-time effects.  Effects run in the order they are    *)
(* declared: the load effect, then the save effect of the first render,    *)
(* whose closure holds the default values, then the voice setup effect;    *)
(* the state the load effect set is rendered next, and the save effect     *)
(* runs again if a value changed.  An effect that throws is not caught by  *)
(* the component: React then unmounts the tree (mountPc "crashed"), and    *)
(* what the effects before it did to the body and to storage stays.        *)
(***************************************************************************)
DefaultFontSize == Num(0)
DefaultHighContrast == Bool(FALSE)
DefaultLineHeight == Num(0)
\* Speech rates in tenths: rates = [0.6, 0.8, 1.0, 1.2].
rates == <<6, 8, 10, 12>>
DefaultSpeechRate == rates[2]

\* if (settings.x !== undefined) { setX(settings.x); applyXClass(settings.x) }
LoadedValue(stored, current) == IF stored # Undefined THEN stored ELSE current

\* Mutant of LoadSettingsEffect: no try/catch around the read and the parse.
LoadSettingsEffectUncaught(readThrows) ==
  /\ mountPc = "load"
  /\ IF readThrows \/ storage.kind \in {"garbage", "null"}
     THEN /\ mountPc' = "crashed"
          /\ loadOutcome' = "threw"
          /\ UNCHANGED <<fontSize, highContrast, lineHeight, bodyClasses>>
     ELSE /\ mountPc' = "save"
          /\ loadOutcome' = "ok"
          /\ fontSize' = LoadedValue(storage.fontSize, fontSize)
          /\ highContrast' = LoadedValue(storage.highContrast, highContrast)
          /\ lineHeight' = LoadedValue(storage.lineHeight, lineHeight)
          /\ bodyClasses' =
               applyAllClasses(bodyClasses, fontSize', highContrast', lineHeight')
  /\ UNCHANGED <<speechRate, storage, storage0, saveOutcome, playbackVars, notice>>
  /\ UNCHANGED uiVars
  /\ UNCHANGED extVars

\* The load effect; readThrows: localStorage.getItem threw.
LoadSettingsEffect(readThrows) ==
  /\ mountPc = "load"
  /\ mountPc' = "save"
  /\ IF readThrows \/ storage.kind \in {"garbage", "null"}
     THEN \* caught: console.error only
          /\ loadOutcome' = "threw"
          /\ UNCHANGED <<fontSize, highContrast, lineHeight, bodyClasses>>
     ELSE /\ loadOutcome' = "ok"
          /\ fontSize' = LoadedValue(storage.fontSize, fontSize)
          /\ highContrast' = LoadedValue(storage.highContrast, highContrast)
          /\ lineHeight' = LoadedValue(storage.lineHeight, lineHeight)
          /\ bodyClasses' =
               LET c1 == IF storage.fontSize # Undefined
                         THEN applyFontSizeClass(bodyClasses, storage.fontSize)
                         ELSE bodyClasses
                   c2 == IF storage.highContrast # Undefined
                         THEN applyHighContrastClass(c1, storage.highContrast)
                         ELSE c1
               IN IF storage.lineHeight # Undefined
                  THEN applyLineHeightClass(c2, storage.lineHeight)
                  ELSE c2
  /\ UNCHANGED <<speechRate, storage, storage0, saveOutcome, playbackVars, notice>>
  /\ UNCHANGED uiVars
  /\ UNCHANGED extVars

\* localStorage.setItem(key, JSON.stringify({fontSize, highContrast, lineHeight}))
\* inside try/catch; writeThrows: setItem threw.
SaveSettings(fs, hc, lh, writeThrows) ==
  /\ storage' = IF writeThrows THEN storage ELSE SettingsRecord(fs, hc, lh)
  /\ saveOutcome' = IF writeThrows THEN "threw" ELSE "ok"

\* The save effect of the first render: its closure holds the initial state.
SaveSettingsEffectAtMount(writeThrows) ==
  /\ mountPc = "save"
  /\ SaveSettings(DefaultFontSize, DefaultHighContrast, DefaultLineHeight,
                  writeThrows)
  /\ mountPc' = "voices"
  /\ UNCHANGED <<fontSize, highContrast, lineHeight, speechRate, bodyClasses,
                 storage0, loadOutcome, playbackVars, notice>>
  /\ UNCHANGED uiVars
  /\ UNCHANGED extVars

\* Mutant of SpeechSynthesisInWindow: the test always succeeds.
SpeechSynthesisAlwaysInWindow == TRUE

\* 'speechSynthesis' in window
SpeechSynthesisInWindow == hasSpeech

\* Romanian voices of the largest voice list of a platform.
MaxVoices == 2

\* updateVoices(): the list is set to the platform's n Romanian voices, and
\* when no voice is selected the best one is: best is the place of the first
\* voice whose name has neither 'standard' nor 'compact', else the first.
updateVoices(n, best) ==
  /\ availableRomanianVoices' = n
  /\ selectedVoice' = IF n > 0 /\ selectedVoice = 0 THEN best ELSE selectedVoice

\* The voice setup effect at mount.  window.speechSynthesis.getVoices() is
\* called unguarded: it throws when window has no speechSynthesis.
VoiceSetupEffect(n, best) ==
  /\ mountPc = "voices"
  /\ n > 0 => best \in 1..n
  /\ IF SpeechSynthesisInWindow
     THEN /\ updateVoices(n, best)
          /\ mountPc' = IF <<fontSize, highContrast, lineHeight>> =
                           <<DefaultFontSize, DefaultHighContrast,
                             DefaultLineHeight>>
                        THEN "ready" ELSE "rerender"
     ELSE /\ mountPc' = "crashed"
          /\ UNCHANGED <<availableRomanianVoices, selectedVoice>>
  /\ UNCHANGED <<fontSize, highContrast, lineHeight, speechRate, bodyClasses,
                 storage, storage0, loadOutcome, saveOutcome, playbackVars,
                 notice, hasSpeech, isPanelOpen, extVars>>

\* Mutant of SaveSettingsEffectAfterLoad: the save effect runs at mount only
\* (an empty dependency list), so the loaded state is not written back.
SaveSettingsEffectOnlyAtMount(writeThrows) ==
  /\ mountPc = "rerender"
  /\ mountPc' = "ready"
  /\ UNCHANGED <<fontSize, highContrast, lineHeight, speechRate, bodyClasses,
                 storage, storage0, loadOutcome, saveOutcome, playbackVars,
                 notice>>
  /\ UNCHANGED uiVars
  /\ UNCHANGED extVars

\* The render of the loaded state: a dependency changed, the save effect runs.
SaveSettingsEffectAfterLoad(writeThrows) ==
  /\ mountPc = "rerender"
  /\ SaveSettings(fontSize, highContrast, lineHeight, writeThrows)
  /\ mountPc' = "ready"
  /\ UNCHANGED <<fontSize, highContrast, lineHeight, speechRate, bodyClasses,
                 storage0, loadOutcome, playbackVars, notice>>
  /\ UNCHANGED uiVars
  /\ UNCHANGED extVars

\* The save effect after a handler: it runs when fontSize, highContrast or
\* lineHeight is not the value of the previous render (Object.is).
SaveSettingsEffect ==
  IF <<fontSize', highContrast', lineHeight'>> = <<fontSize, highContrast, lineHeight>>
  THEN UNCHANGED <<storage, saveOutcome>>
  ELSE \E writeThrows \in BOOLEAN :
         SaveSettings(fontSize', highContrast', lineHeight', writeThrows)

(***************************************************************************)
(* Settings: the handlers.                                                 *)
(***************************************************************************)
\* Mutant of handleFontSizeChange: the new size is kept only when the write
\* succeeded.
handleFontSizeChangeRollsBack ==
  /\ mountPc = "ready"
  /\ \E writeThrows \in BOOLEAN :
       /\ SaveSettings(JsPlus1Mod3(fontSize), highContrast, lineHeight,
                       writeThrows)
       /\ fontSize' = IF writeThrows THEN fontSize ELSE JsPlus1Mod3(fontSize)
       /\ bodyClasses' = applyFontSizeClass(bodyClasses, fontSize')
  /\ UNCHANGED <<highContrast, lineHeight>>
  /\ notice' = "none"
  /\ UNCHANGED <<speechRate, storage0, loadOutcome, mountPc, playbackVars>>
  /\ UNCHANGED uiVars
  /\ UNCHANGED extVars

handleFontSizeChange ==
  /\ mountPc = "ready"
  /\ LET newSize == JsPlus1Mod3(fontSize)
     IN /\ fontSize' = newSize
        /\ bodyClasses' = applyFontSizeClass(bodyClasses, newSize)
  /\ UNCHANGED <<highContrast, lineHeight>>
  /\ SaveSettingsEffect
  /\ notice' = "none"
  /\ UNCHANGED <<speechRate, storage0, loadOutcome, mountPc, playbackVars>>
  /\ UNCHANGED uiVars
  /\ UNCHANGED extVars

handleContrastToggle ==
  /\ mountPc = "ready"
  /\ LET newState == JsNot(highContrast)
     IN /\ highContrast' = newState
        /\ bodyClasses' = applyHighContrastClass(bodyClasses, newState)
  /\ UNCHANGED <<fontSize, lineHeight>>
  /\ SaveSettingsEffect
  /\ notice' = "none"
  /\ UNCHANGED <<speechRate, storage0, loadOutcome, mountPc, playbackVars>>
  /\ UNCHANGED uiVars
  /\ UNCHANGED extVars

handleLineHeightChange ==
  /\ mountPc = "ready"
  /\ LET newHeight == JsPlus1Mod3(lineHeight)
     IN /\ lineHeight' = newHeight
        /\ bodyClasses' = applyLineHeightClass(bodyClasses, newHeight)
  /\ UNCHANGED <<fontSize, highContrast>>
  /\ SaveSettingsEffect
  /\ notice' = "none"
  /\ UNCHANGED <<speechRate, storage0, loadOutcome, mountPc, playbackVars>>
  /\ UNCHANGED uiVars
  /\ UNCHANGED extVars

\* rates.indexOf(speechRate), -1 when absent (0-based).
RateIndexOf(rate) ==
  IF \E i \in 1..Len(rates) : rates[i] = rate
  THEN (CHOOSE i \in 1..Len(rates) : rates[i] = rate) - 1
  ELSE -1

NextRate(rate) == rates[((RateIndexOf(rate) + 1) % Len(rates)) + 1]

handleSpeechRateChange ==
  /\ mountPc = "ready"
  /\ speechRate' = NextRate(speechRate)
  /\ notice' = "none"
  /\ UNCHANGED <<fontSize, highContrast, lineHeight, bodyClasses, storage,
                 storage0, loadOutcome, saveOutcome, mountPc, playbackVars>>
  /\ UNCHANGED uiVars
  /\ UNCHANGED extVars

(***************************************************************************)
(* Read aloud: the text of the page and its chunks.                        *)
(*                                                                         *)
(* textContent is the trimmed, non-empty texts of the page's elements      *)
(* joined by '. '.  The model keeps of it what the chunking reads: the     *)
(* lengths of the pieces the regular expression /[^\.!?]+[\.!?]+/g         *)
(* matches (sentences) and the length of what follows the last             *)
(* terminator (tail, 0 if nothing does).  A piece is [pos, len], pos its   *)
(* place in the text.                                                      *)
(***************************************************************************)
\* (currentChunk + sentence).length > 200
ChunkLimit == 200
SentenceLengths == {100, 150, 250}
TailLengths == {0, 40, 250}

SeqsUpTo(S, n) == UNION {[1..k -> S] : k \in 0..n}

Texts ==
  {[sentences |-> ss, tail |-> t] :
     ss \in SeqsUpTo(SentenceLengths, MaxSentences), t \in TailLengths}

\* The page texts of Spec: sentences too long to
\* share a chunk, so a text of k sentences is read as k chunks.
PageTexts ==
  {text \in Texts :
     /\ text.tail = 0
     /\ Len(text.sentences) <= MaxPageSentences
     /\ \A i \in 1..Len(text.sentences) : text.sentences[i] = 150}

\* `!textContent`: the empty string.
NoContent(text) == text.sentences = <<>> /\ text.tail = 0

\* textContent.match(/[^\.!?]+[\.!?]+/g) || [textContent]
MatchSentences(text) ==
  IF text.sentences # <<>>
  THEN [i \in 1..Len(text.sentences) |-> [pos |-> i, len |-> text.sentences[i]]]
  ELSE <<[pos |-> 1, len |-> text.tail]>>

RECURSIVE ChunkLength(_)
ChunkLength(chunk) ==
  IF chunk = <<>> THEN 0 ELSE Head(chunk).len + ChunkLength(Tail(chunk))

\* sentences.forEach(...) from index i on, with currentChunk and chunks so far;
\* then the final `if (currentChunk) chunks.push(currentChunk.trim())`.
RECURSIVE AccumulateChunks(_, _, _, _)
AccumulateChunks(sentences, i, currentChunk, out) ==
  LET pushed == IF currentChunk # <<>> THEN Append(out, currentChunk) ELSE out
  IN IF i > Len(sentences) THEN pushed
     ELSE IF ChunkLength(currentChunk) + sentences[i].len > ChunkLimit
          THEN AccumulateChunks(sentences, i + 1, <<sentences[i]>>, pushed)
          ELSE AccumulateChunks(sentences, i + 1,
                                Append(currentChunk, sentences[i]), out)

SplitIntoChunks(text) == AccumulateChunks(MatchSentences(text), 1, <<>>, <<>>)

(***************************************************************************)
(* Read aloud: timers.  timers holds the pending setTimeout callbacks in   *)
(* the order they were set.  A timer set earlier with a delay that is not  *)
(* longer fires first; any other order of two timers is possible.          *)
(***************************************************************************)
\* setTimeout(() => speakNext(), 100) in start
StartDelay == 100
\* setTimeout(speakNext, 300) in onend
ChunkPause == 300
\* setTimeout(() => setReadingProgress(0), 2000) in onend
ResetDelay == 2000

TimerDelay(timer) ==
  CASE timer.kind = "start" -> StartDelay
    [] timer.kind = "next"  -> ChunkPause
    [] timer.kind = "reset" -> ResetDelay

Timer(kind, s) == [kind |-> kind, sess |-> s]

CanFire(i) ==
  /\ i \in 1..Len(timers)
  /\ \A j \in 1..(i - 1) : TimerDelay(timers[j]) > TimerDelay(timers[i])

RemoveAt(seq, i) == SubSeq(seq, 1, i - 1) \o SubSeq(seq, i + 1, Len(seq))

Range(seq) == {seq[i] : i \in 1..Len(seq)}

(***************************************************************************)
(* Read aloud: the speech engine (window.speechSynthesis).  speak()        *)
(* appends an utterance to the queue; the engine speaks the head, firing   *)
(* its start and then its end event, or its error event.  cancel() empties *)
(* the queue; what a cancelled utterance still fires differs between       *)
(* engines (an error event, an end event, nothing), so each of these can   *)
(* happen.  An utterance is named by its session: a session has at most    *)
(* one utterance at the engine.                                            *)
(***************************************************************************)
Sessions == 1..MaxSessions

\* window.speechSynthesis.cancel()
EngineCancel ==
  /\ cancelled' = cancelled \cup Range(engineQueue)
  /\ engineQueue' = <<>>
  /\ headStarted' = FALSE

\* Math.round((currentIndex / chunks.length) * 100)
Progress(index, length) == (200 * index + length) \div (2 * length)

(***************************************************************************)
(* Read aloud: the callbacks of a session's utterance and speakNext.       *)
(* They are closures of the handleReadAloud call that started session s:   *)
(* chunks[s] and currentIndex[s] are theirs, isReadingRef is shared.       *)
(***************************************************************************)
\* utterance.onstart
onstart(s) ==
  readingProgress' = Progress(currentIndex[s], Len(chunks[s]))

\* Mutant of onend: the completion leaves the progress at 100 for good.
onendNoReset(s) ==
  /\ currentIndex' = [currentIndex EXCEPT ![s] = @ + 1]
  /\ IF currentIndex'[s] < Len(chunks[s]) /\ isReadingRef
     THEN /\ timers' = Append(timers, Timer("next", s))
          /\ UNCHANGED <<isReading, isReadingRef, readingProgress>>
     ELSE /\ isReading' = FALSE
          /\ isReadingRef' = FALSE
          /\ readingProgress' = 100
          /\ timers' = timers

\* utterance.onend
onend(s) ==
  /\ currentIndex' = [currentIndex EXCEPT ![s] = @ + 1]
  /\ IF currentIndex'[s] < Len(chunks[s]) /\ isReadingRef
     THEN /\ timers' = Append(timers, Timer("next", s))
          /\ UNCHANGED <<isReading, isReadingRef, readingProgress>>
     ELSE /\ isReading' = FALSE
          /\ isReadingRef' = FALSE
          /\ readingProgress' = 100
          /\ timers' = Append(timers, Timer("reset", s))

\* Mutant of onerror: setReadingProgress(0) forgotten.
onerrorKeepsProgress(s) ==
  /\ isReading' = FALSE
  /\ isReadingRef' = FALSE
  /\ readingProgress' = readingProgress
  /\ notice' = "error"

\* utterance.onerror
onerror(s) ==
  /\ isReading' = FALSE
  /\ isReadingRef' = FALSE
  /\ readingProgress' = 0
  /\ notice' = "error"

\* utterance.voice when it was never assigned: the engine picks a voice for
\* utterance.lang.
NoVoice == 0

\* The utterance speakNext of session s builds: utterance.rate = speechRate
\* of the closure; utterance.voice is not assigned.
Utterance(s) == [rate |-> closureSpeechRate[s], voice |-> NoVoice]

\* The utterance of the JSX variant:
\* if (selectedVoice) utterance.voice = selectedVoice.
UtteranceJsx(s) ==
  [rate |-> closureSpeechRate[s], voice |-> closureSelectedVoice[s]]

\* speakNext of session s: speechSynthesis.speak(new utterance of the chunk).
speakNext(s) ==
  IF currentIndex[s] < Len(chunks[s]) /\ isReadingRef
  THEN /\ engineQueue' = Append(engineQueue, s)
       /\ dispatched' = [dispatched EXCEPT ![s] = Append(@, currentIndex[s])]
       /\ dispatchedSpeech' =
            [dispatchedSpeech EXCEPT ![s] = Append(@, Utterance(s))]
  ELSE UNCHANGED <<engineQueue, dispatched, dispatchedSpeech>>

(***************************************************************************)
(* Read aloud: the handler.                                                *)
(***************************************************************************)
\* Mutant of ReadAloudStop: setReadingProgress(0) forgotten.
ReadAloudStopKeepsProgress ==
  /\ mountPc = "ready"
  /\ isReading
  /\ EngineCancel
  /\ isReading' = FALSE
  /\ isReadingRef' = FALSE
  /\ stopped' = stopped \cup {nSessions}
  /\ notice' = "none"
  /\ UNCHANGED <<settingsVars, readingProgress, nSessions, sessionClosure,
                 currentIndex, dispatched, timers, errored>>
  /\ UNCHANGED uiVars
  /\ UNCHANGED extVars

\* handleReadAloud, the branch `if (isReading)`: stop().
ReadAloudStop ==
  /\ mountPc = "ready"
  /\ isReading
  /\ EngineCancel
  /\ isReading' = FALSE
  /\ isReadingRef' = FALSE
  /\ readingProgress' = 0
  /\ stopped' = stopped \cup {nSessions}
  /\ notice' = "none"
  /\ UNCHANGED <<settingsVars, nSessions, sessionClosure, currentIndex,
            dispatched, timers, errored>>
  /\ UNCHANGED uiVars
  /\ UNCHANGED extVars

\* Mutant of ReadAloudStart: the state is set before the text is looked at.
ReadAloudStartBeforeText(text) ==
  /\ mountPc = "ready"
  /\ ~isReading
  /\ IF NoContent(text)
     THEN /\ notice' = "noContent"
          /\ isReading' = TRUE
          /\ isReadingRef' = TRUE
          /\ readingProgress' = 0
          /\ UNCHANGED <<settingsVars, nSessions, sessionClosure, currentIndex,
                         dispatched, timers, engineQueue, headStarted,
                         cancelled, stopped, errored>>
     ELSE /\ nSessions < MaxSessions
          /\ nSessions' = nSessions + 1
          /\ chunks' = [chunks EXCEPT ![nSessions'] = SplitIntoChunks(text)]
          /\ currentIndex' = [currentIndex EXCEPT ![nSessions'] = 0]
          /\ closureIsReading' = [closureIsReading EXCEPT ![nSessions'] = isReading]
          /\ closureSpeechRate' =
               [closureSpeechRate EXCEPT ![nSessions'] = speechRate]
          /\ closureSelectedVoice' =
               [closureSelectedVoice EXCEPT ![nSessions'] = selectedVoice]
          /\ isReading' = TRUE
          /\ isReadingRef' = TRUE
          /\ readingProgress' = 0
          /\ EngineCancel
          /\ timers' = Append(timers, Timer("start", nSessions'))
          /\ notice' = "none"
          /\ UNCHANGED <<settingsVars, dispatched, stopped, errored>>
  /\ UNCHANGED uiVars
  /\ UNCHANGED extVars

\* handleReadAloud, the else branch: start() on a page whose text is `text`.
ReadAloudStart(text) ==
  /\ mountPc = "ready"
  /\ ~isReading
  /\ IF NoContent(text)
     THEN /\ notice' = "noContent"
          /\ UNCHANGED <<settingsVars, playbackVars>>
     ELSE /\ nSessions < MaxSessions
          /\ nSessions' = nSessions + 1
          /\ chunks' = [chunks EXCEPT ![nSessions'] = SplitIntoChunks(text)]
          /\ currentIndex' = [currentIndex EXCEPT ![nSessions'] = 0]
          /\ closureIsReading' = [closureIsReading EXCEPT ![nSessions'] = isReading]
          /\ closureSpeechRate' =
               [closureSpeechRate EXCEPT ![nSessions'] = speechRate]
          /\ closureSelectedVoice' =
               [closureSelectedVoice EXCEPT ![nSessions'] = selectedVoice]
          /\ isReading' = TRUE
          /\ isReadingRef' = TRUE
          /\ readingProgress' = 0
          /\ EngineCancel
          /\ timers' = Append(timers, Timer("start", nSessions'))
          /\ notice' = "none"
          /\ UNCHANGED <<settingsVars, dispatched, stopped, errored>>
  /\ UNCHANGED uiVars
  /\ UNCHANGED extVars

(***************************************************************************)
(* Read aloud: timer callbacks.                                            *)
(***************************************************************************)
\* The 100 ms timer of start() or the 300 ms timer of onend fires.
SpeakNextTimer(i) ==
  /\ CanFire(i)
  /\ timers[i].kind \in {"start", "next"}
  /\ timers' = RemoveAt(timers, i)
  /\ speakNext(timers[i].sess)
  /\ notice' = "none"
  /\ UNCHANGED <<settingsVars, isReading, isReadingRef, readingProgress,
            nSessions, sessionClosure, currentIndex, headStarted, cancelled,
            stopped, errored>>
  /\ UNCHANGED uiVars
  /\ UNCHANGED <<hostVars, dragVars>>

\* The 2 s timer of onend fires: setReadingProgress(0).
ResetProgressTimer(i) ==
  /\ CanFire(i)
  /\ timers[i].kind = "reset"
  /\ timers' = RemoveAt(timers, i)
  /\ readingProgress' = 0
  /\ notice' = "none"
  /\ UNCHANGED <<settingsVars, isReading, isReadingRef, nSessions, sessionClosure,
            currentIndex, dispatched, engineQueue, headStarted, cancelled,
            stopped, errored>>
  /\ UNCHANGED uiVars
  /\ UNCHANGED extVars

(***************************************************************************)
(* Read aloud: speech-engine events.                                       *)
(***************************************************************************)
\* The engine begins to speak the head of its queue.
UtteranceStart ==
  /\ engineQueue # <<>>
  /\ ~headStarted
  /\ headStarted' = TRUE
  /\ onstart(Head(engineQueue))
  /\ notice' = "none"
  /\ UNCHANGED <<settingsVars, isReading, isReadingRef, nSessions, sessionClosure,
            currentIndex, dispatched, timers, engineQueue, cancelled,
            stopped, errored>>
  /\ UNCHANGED uiVars
  /\ UNCHANGED extVars

\* The engine finishes the head utterance.
UtteranceEnd ==
  /\ engineQueue # <<>>
  /\ headStarted
  /\ engineQueue' = Tail(engineQueue)
  /\ headStarted' = FALSE
  /\ onend(Head(engineQueue))
  /\ notice' = "none"
  /\ UNCHANGED <<settingsVars, nSessions, sessionClosure, dispatched, cancelled,
            stopped, errored>>
  /\ UNCHANGED uiVars
  /\ UNCHANGED extVars

\* The engine fails on the head utterance.
UtteranceError ==
  /\ engineQueue # <<>>
  /\ engineQueue' = Tail(engineQueue)
  /\ headStarted' = FALSE
  /\ onerror(Head(engineQueue))
  /\ errored' = errored \cup {Head(engineQueue)}
  /\ UNCHANGED <<settingsVars, nSessions, sessionClosure, currentIndex,
            dispatched, timers, cancelled, stopped>>
  /\ UNCHANGED uiVars
  /\ UNCHANGED extVars

\* A cancelled utterance fires its end event after all.
CancelledEnd(s) ==
  /\ s \in cancelled
  /\ cancelled' = cancelled \ {s}
  /\ onend(s)
  /\ notice' = "none"
  /\ UNCHANGED <<settingsVars, nSessions, sessionClosure, dispatched, engineQueue,
            headStarted, stopped, errored>>
  /\ UNCHANGED uiVars
  /\ UNCHANGED extVars

\* A cancelled utterance fires its error event ('interrupted', 'canceled').
CancelledError(s) ==
  /\ s \in cancelled
  /\ cancelled' = cancelled \ {s}
  /\ onerror(s)
  /\ UNCHANGED <<settingsVars, nSessions, sessionClosure, currentIndex,
            dispatched, timers, engineQueue, headStarted, stopped, errored>>
  /\ UNCHANGED uiVars
  /\ UNCHANGED extVars

(***************************************************************************)
(* Reset.                                                                  *)
(***************************************************************************)
\* Mutant of resetAllSettings: speechSynthesis.cancel() is forgotten.
resetAllSettingsNoCancel ==
  /\ mountPc = "ready"
  /\ fontSize' = Num(0)
  /\ highContrast' = Bool(FALSE)
  /\ lineHeight' = Num(0)
  /\ speechRate' = rates[2]
  /\ IF isReading
     THEN /\ isReading' = FALSE
          /\ isReadingRef' = FALSE
          /\ readingProgress' = 0
          /\ stopped' = stopped \cup {nSessions}
          /\ UNCHANGED <<engineQueue, headStarted, cancelled>>
     ELSE UNCHANGED <<isReading, isReadingRef, readingProgress, engineQueue,
            headStarted, cancelled, stopped>>
  /\ bodyClasses' = bodyClasses \ AllClasses
  /\ SaveSettingsEffect
  /\ notice' = "none"
  /\ UNCHANGED <<storage0, loadOutcome, mountPc, nSessions, sessionClosure,
            currentIndex, dispatched, timers, errored>>
  /\ UNCHANGED uiVars
  /\ UNCHANGED extVars

resetAllSettings ==
  /\ mountPc = "ready"
  /\ fontSize' = Num(0)
  /\ highContrast' = Bool(FALSE)
  /\ lineHeight' = Num(0)
  /\ speechRate' = rates[2]
  /\ IF isReading
     THEN /\ EngineCancel
          /\ isReading' = FALSE
          /\ isReadingRef' = FALSE
          /\ readingProgress' = 0
          /\ stopped' = stopped \cup {nSessions}
     ELSE UNCHANGED <<isReading, isReadingRef, readingProgress, engineQueue,
            headStarted, cancelled, stopped>>
  /\ bodyClasses' = bodyClasses \ AllClasses
  /\ SaveSettingsEffect
  /\ notice' = "none"
  /\ UNCHANGED <<storage0, loadOutcome, mountPc, nSessions, sessionClosure,
            currentIndex, dispatched, timers, errored>>
  /\ UNCHANGED uiVars
  /\ UNCHANGED extVars

(***************************************************************************)
(* The panel and its controls.  Every control is a button with             *)
(* onClick: action and onKeyDown: (e) => handleKeyDown(e, action).  The    *)
(* panel button is always rendered; the others only while the panel is     *)
(* open, the speech-rate button only when a Romanian voice is listed and   *)
(* the voice button only when more than one is.  A disabled button gets    *)
(* neither clicks nor key events.                                          *)
(***************************************************************************)
\* onClick of the panel button: setIsPanelOpen(!isPanelOpen)
TogglePanel ==
  /\ mountPc = "ready"
  /\ isPanelOpen' = ~isPanelOpen
  /\ notice' = "none"
  /\ UNCHANGED <<settingsVars, playbackVars, hasSpeech,
                 availableRomanianVoices, selectedVoice, extVars>>

\* handleVoiceChange: the voice after the selected one, the first when the
\* selected one is not in the list (indexOf gives -1).
handleVoiceChange ==
  /\ mountPc = "ready"
  /\ IF availableRomanianVoices <= 1
     THEN UNCHANGED selectedVoice
     ELSE LET currentIdx == IF selectedVoice \in 1..availableRomanianVoices
                           THEN selectedVoice - 1 ELSE -1
          IN selectedVoice' = ((currentIdx + 1) % availableRomanianVoices) + 1
  /\ notice' = "none"
  /\ UNCHANGED <<settingsVars, playbackVars, hasSpeech, isPanelOpen,
                 availableRomanianVoices, extVars>>

\* The page texts of SpecUi: no text, or one sentence.
UiTexts == {text \in PageTexts : Len(text.sentences) <= 1}

\* handleReadAloud: the capability guard, then stop() or start().
handleReadAloud ==
  IF ~SpeechSynthesisInWindow
  THEN /\ mountPc = "ready"
       /\ notice' = "unsupported"
       /\ UNCHANGED <<settingsVars, playbackVars, uiVars, extVars>>
  ELSE \/ ReadAloudStop
       \/ \E text \in UiTexts : ReadAloudStart(text)

\* speechSynthesis.onvoiceschanged: the platform's voice list has n Romanian
\* voices now.
VoicesChanged(n, best) ==
  /\ mountPc = "ready"
  /\ SpeechSynthesisInWindow
  /\ n > 0 => best \in 1..n
  /\ updateVoices(n, best)
  /\ notice' = "none"
  /\ UNCHANGED <<settingsVars, playbackVars, hasSpeech, isPanelOpen, extVars>>

Controls ==
  {"panel", "fontSize", "contrast", "lineHeight", "readAloud", "speechRate",
   "voice", "reset"}

\* The button of control c is in the rendered tree.
Rendered(c) ==
  /\ mountPc = "ready"
  /\ \/ c = "panel"
     \/ /\ isPanelOpen
        /\ c = "speechRate" => availableRomanianVoices > 0
        /\ c = "voice" => availableRomanianVoices > 1

\* disabled: !('speechSynthesis' in window) on the read-aloud button.
Disabled(c) == c = "readAloud" /\ ~SpeechSynthesisInWindow

\* The action bound to control c.
Activate(c) ==
  \/ c = "panel" /\ TogglePanel
  \/ c = "fontSize" /\ handleFontSizeChange
  \/ c = "contrast" /\ handleContrastToggle
  \/ c = "lineHeight" /\ handleLineHeightChange
  \/ c = "readAloud" /\ handleReadAloud
  \/ c = "speechRate" /\ handleSpeechRateChange
  \/ c = "voice" /\ handleVoiceChange
  \/ c = "reset" /\ resetAllSettings

\* A pointer click on control c.
Click(c) == Rendered(c) /\ ~Disabled(c) /\ Activate(c)

Keys == {"Enter", " ", "Tab"}

\* Mutant of handleKeyDown: the space key is not handled.
handleKeyDownEnterOnly(key, action) ==
  IF key = "Enter" THEN action ELSE UNCHANGED vars

\* handleKeyDown: Enter or ' ' runs the action (and preventDefault keeps the
\* browser from clicking the button as well); any other key is left alone.
handleKeyDown(key, action) ==
  IF key = "Enter" \/ key = " " THEN action ELSE UNCHANGED vars

\* A keydown of key on the focused control c.
KeyDown(c, key) ==
  Rendered(c) /\ ~Disabled(c) /\ handleKeyDown(key, Activate(c))

(***************************************************************************)
(* The JSX variant (unnamed/part_002).  It has no isReadingRef and no      *)
(* persistence: speakNext reads the isReading of its closure, which is the *)
(* state of the render whose handleReadAloud was called.                   *)
(***************************************************************************)
\* speakNext of session s in the JSX variant.
speakNextJsx(s) ==
  IF currentIndex[s] < Len(chunks[s]) /\ closureIsReading[s]
  THEN /\ engineQueue' = Append(engineQueue, s)
       /\ dispatched' = [dispatched EXCEPT ![s] = Append(@, currentIndex[s])]
       /\ dispatchedSpeech' =
            [dispatchedSpeech EXCEPT ![s] = Append(@, UtteranceJsx(s))]
  ELSE UNCHANGED <<engineQueue, dispatched, dispatchedSpeech>>

\* handleReadAloud of the JSX variant, the branch `if (isReading)`.
ReadAloudStopJsx ==
  /\ isReading
  /\ EngineCancel
  /\ isReading' = FALSE
  /\ readingProgress' = 0
  /\ stopped' = stopped \cup {nSessions}
  /\ notice' = "none"
  /\ UNCHANGED <<settingsVars, isReadingRef, nSessions, sessionClosure,
                 currentIndex, dispatched, timers, errored>>
  /\ UNCHANGED uiVars
  /\ UNCHANGED extVars

\* handleReadAloud of the JSX variant, the else branch.
ReadAloudStartJsx(text) ==
  /\ ~isReading
  /\ IF NoContent(text)
     THEN /\ notice' = "noContent"
          /\ UNCHANGED <<settingsVars, playbackVars>>
     ELSE /\ nSessions < MaxSessions
          /\ nSessions' = nSessions + 1
          /\ chunks' = [chunks EXCEPT ![nSessions'] = SplitIntoChunks(text)]
          /\ currentIndex' = [currentIndex EXCEPT ![nSessions'] = 0]
          /\ closureIsReading' = [closureIsReading EXCEPT ![nSessions'] = isReading]
          /\ closureSpeechRate' =
               [closureSpeechRate EXCEPT ![nSessions'] = speechRate]
          /\ closureSelectedVoice' =
               [closureSelectedVoice EXCEPT ![nSessions'] = selectedVoice]
          /\ isReading' = TRUE
          /\ readingProgress' = 0
          /\ EngineCancel
          /\ timers' = Append(timers, Timer("start", nSessions'))
          /\ notice' = "none"
          /\ UNCHANGED <<settingsVars, isReadingRef, dispatched, stopped, errored>>
  /\ UNCHANGED uiVars
  /\ UNCHANGED extVars

\* setTimeout(speakNext, 100) of the JSX variant fires.
SpeakNextTimerJsx(i) ==
  /\ CanFire(i)
  /\ timers[i].kind \in {"start", "next"}
  /\ timers' = RemoveAt(timers, i)
  /\ speakNextJsx(timers[i].sess)
  /\ notice' = "none"
  /\ UNCHANGED <<settingsVars, isReading, isReadingRef, readingProgress,
                 nSessions, sessionClosure, currentIndex, headStarted,
                 cancelled, stopped, errored>>
  /\ UNCHANGED uiVars
  /\ UNCHANGED <<hostVars, dragVars>>

\* handleFontSizeChange of the JSX variant: the state and the body class;
\* the variant has no save effect.
handleFontSizeChangeJsx ==
  /\ LET newSize == JsPlus1Mod3(fontSize)
     IN /\ fontSize' = newSize
        /\ bodyClasses' = applyFontSizeClass(bodyClasses, newSize)
  /\ notice' = "none"
  /\ UNCHANGED <<highContrast, lineHeight, speechRate, storage, storage0,
                 loadOutcome, saveOutcome, mountPc, playbackVars, uiVars,
                 extVars>>

\* resetAllSettings of the JSX variant.
resetAllSettingsJsx ==
  /\ fontSize' = Num(0)
  /\ highContrast' = Bool(FALSE)
  /\ lineHeight' = Num(0)
  /\ speechRate' = rates[2]
  /\ IF isReading
     THEN /\ EngineCancel
          /\ isReading' = FALSE
          /\ readingProgress' = 0
          /\ stopped' = stopped \cup {nSessions}
     ELSE UNCHANGED <<isReading, readingProgress, engineQueue, headStarted,
                      cancelled, stopped>>
  /\ bodyClasses' = bodyClasses \ AllClasses
  /\ notice' = "none"
  /\ UNCHANGED <<storage, storage0, loadOutcome, saveOutcome, mountPc,
                 isReadingRef, nSessions, sessionClosure, currentIndex,
                 dispatched, timers, errored>>
  /\ UNCHANGED uiVars
  /\ UNCHANGED extVars

(***************************************************************************)
(* Dragging.  The header of the panel has onMouseDown: handleMouseDown;    *)
(* while isDragging is true handleMouseMove and handleMouseUp listen on    *)
(* the document, so a move or a release outside a drag reaches no handler. *)
(* The pointer of a drag in progress may have left the window: its         *)
(* coordinates can be negative or beyond the viewport.                     *)
(***************************************************************************)
\* setIsMobile(window.innerWidth <= 768)
MobileBreakpoint == 768
\* Math.min(window.innerWidth - 60, ...)
DragMargin == 60

Coordinates == {-500, 0, 500, 2000}
Pointers == {[x |-> cx, y |-> cy] : cx \in Coordinates, cy \in Coordinates}

\* window.innerWidth and window.innerHeight: a desktop window, a desktop
\* window too low for the margin, a phone.
Viewports ==
  {[w |-> 1024, h |-> 768], [w |-> 1024, h |-> 40], [w |-> 400, h |-> 700]}

\* Mutant of Clamp: Math.max(0, ...) is forgotten.
ClampNoFloor(v, hi) == IF v < hi THEN v ELSE hi

\* Math.max(0, Math.min(hi, v))
Clamp(v, hi) ==
  LET m == IF v < hi THEN v ELSE hi
  IN IF m > 0 THEN m ELSE 0

\* The position effect: the corner of the layout.
Corner(mobile, view) ==
  IF mobile THEN [x |-> 16, y |-> view.h - 80] ELSE [x |-> 16, y |-> 100]

dragFrame ==
  UNCHANGED <<settingsVars, playbackVars, uiVars, dispatchedSpeech, hostVars>>

\* The window is resized to view: checkMobile, and the position effect when
\* isMobile changed.
Resize(view) ==
  /\ mountPc = "ready"
  /\ viewport' = view
  /\ isMobile' = (view.w <= MobileBreakpoint)
  /\ position' = IF isMobile' # isMobile THEN Corner(isMobile', view)
                 ELSE position
  /\ notice' = "none"
  /\ UNCHANGED <<isDragging, startPos>>
  /\ dragFrame

\* A press on the header at pointer p.
handleMouseDown(p) ==
  /\ mountPc = "ready"
  /\ IF isMobile
     THEN UNCHANGED <<isDragging, startPos>>
     ELSE /\ isDragging' = TRUE
          /\ startPos' = [x |-> p.x - position.x, y |-> p.y - position.y]
  /\ notice' = "none"
  /\ UNCHANGED <<isMobile, position, viewport>>
  /\ dragFrame

\* The pointer moves to p.
handleMouseMove(p) ==
  /\ mountPc = "ready"
  /\ IF ~isDragging
     THEN UNCHANGED position
     ELSE position' =
            [x |-> Clamp(p.x - startPos.x, viewport.w - DragMargin),
             y |-> Clamp(p.y - startPos.y, viewport.h - DragMargin)]
  /\ notice' = "none"
  /\ UNCHANGED <<isMobile, isDragging, startPos, viewport>>
  /\ dragFrame

\* The button is released.
handleMouseUp ==
  /\ mountPc = "ready"
  /\ isDragging
  /\ isDragging' = FALSE
  /\ notice' = "none"
  /\ UNCHANGED <<isMobile, position, startPos, viewport>>
  /\ dragFrame

(***************************************************************************)
(* The native component (scripts/kill-port.js, AccessibilitySidebar) in    *)
(* its host (AccessibilityExample.jsx).  The host passes its own setters   *)
(* as onFontSizeChange, onContrastChange and onLineHeightChange, so what   *)
(* it was last told is its state.  The component has no body classes; its  *)
(* settings are kept under AsyncStorage, read by loadSettings and written  *)
(* by saveSettings at mount and after every change.  The read is issued    *)
(* before the first write, so the mount is the sequence load, save, save   *)
(* of the loaded state.                                                    *)
(***************************************************************************)
\* `v || d`
JsOr(v, d) == IF Truthy(v) THEN v ELSE d

\* loadSettings; readThrows: AsyncStorage.getItem rejected.
loadSettingsNative(readThrows) ==
  /\ mountPc = "load"
  /\ mountPc' = "save"
  /\ IF readThrows \/ storage.kind \in {"garbage", "null"}
     THEN \* caught: console.warn only
          /\ loadOutcome' = "threw"
          /\ UNCHANGED <<fontSize, highContrast, lineHeight>>
     ELSE /\ loadOutcome' = "ok"
          /\ IF storage.kind = "missing"
             THEN UNCHANGED <<fontSize, highContrast, lineHeight>>
             ELSE /\ fontSize' = JsOr(storage.fontSize, Num(0))
                  /\ highContrast' = JsOr(storage.highContrast, Bool(FALSE))
                  /\ lineHeight' = JsOr(storage.lineHeight, Num(0))
  /\ UNCHANGED <<speechRate, bodyClasses, storage, storage0, saveOutcome,
                 playbackVars, notice, uiVars, extVars>>

\* Where the mount goes after an effect: the loaded state is rendered next
\* when it differs from the first render's.
AfterMountSave ==
  IF <<fontSize, highContrast, lineHeight>> =
       <<DefaultFontSize, DefaultHighContrast, DefaultLineHeight>>
  THEN "ready" ELSE "rerender"

\* saveSettings of the first render: its closure holds the initial state.
saveSettingsNativeAtMount(writeThrows) ==
  /\ mountPc = "save"
  /\ SaveSettings(DefaultFontSize, DefaultHighContrast, DefaultLineHeight,
                  writeThrows)
  /\ mountPc' = AfterMountSave
  /\ UNCHANGED <<fontSize, highContrast, lineHeight, speechRate, bodyClasses,
                 storage0, loadOutcome, playbackVars, notice, uiVars, extVars>>

\* saveSettings of the render of the loaded state.
saveSettingsNativeAfterLoad(writeThrows) ==
  /\ mountPc = "rerender"
  /\ SaveSettings(fontSize, highContrast, lineHeight, writeThrows)
  /\ mountPc' = "ready"
  /\ UNCHANGED <<fontSize, highContrast, lineHeight, speechRate, bodyClasses,
                 storage0, loadOutcome, playbackVars, notice, uiVars, extVars>>

nativeFrame ==
  UNCHANGED <<speechRate, bodyClasses, storage0, loadOutcome, mountPc, notice,
              uiVars, dispatchedSpeech, dragVars>>

handleFontSizeChangeNative ==
  /\ mountPc = "ready"
  /\ LET newSize == JsPlus1Mod3(fontSize)
     IN /\ fontSize' = newSize
        /\ hostFontSize' = newSize
  /\ UNCHANGED <<highContrast, lineHeight, hostHighContrast, hostLineHeight>>
  /\ SaveSettingsEffect
  /\ UNCHANGED playbackVars
  /\ nativeFrame

handleContrastToggleNative ==
  /\ mountPc = "ready"
  /\ LET newState == JsNot(highContrast)
     IN /\ highContrast' = newState
        /\ hostHighContrast' = newState
  /\ UNCHANGED <<fontSize, lineHeight, hostFontSize, hostLineHeight>>
  /\ SaveSettingsEffect
  /\ UNCHANGED playbackVars
  /\ nativeFrame

handleLineHeightChangeNative ==
  /\ mountPc = "ready"
  /\ LET newHeight == JsPlus1Mod3(lineHeight)
     IN /\ lineHeight' = newHeight
        /\ hostLineHeight' = newHeight
  /\ UNCHANGED <<fontSize, highContrast, hostFontSize, hostHighContrast>>
  /\ SaveSettingsEffect
  /\ UNCHANGED playbackVars
  /\ nativeFrame

\* resetAllSettings of the native component: Speech.stop() when reading, and
\* the three callbacks with the defaults.
resetAllSettingsNative ==
  /\ mountPc = "ready"
  /\ fontSize' = Num(0)
  /\ highContrast' = Bool(FALSE)
  /\ lineHeight' = Num(0)
  /\ isReading' = FALSE
  /\ hostFontSize' = Num(0)
  /\ hostHighContrast' = Bool(FALSE)
  /\ hostLineHeight' = Num(0)
  /\ SaveSettingsEffect
  /\ UNCHANGED <<isReadingRef, readingProgress, nSessions, sessionClosure,
                 currentIndex, dispatched, timers, engineQueue, headStarted,
                 cancelled, stopped, errored>>
  /\ nativeFrame

(***************************************************************************)
(* Specifications.                                                         *)
(***************************************************************************)
InitPlayback ==
  /\ isReading = FALSE
  /\ isReadingRef = FALSE
  /\ readingProgress = 0
  /\ notice = "none"
  /\ nSessions = 0
  /\ chunks = [s \in Sessions |-> <<>>]
  /\ currentIndex = [s \in Sessions |-> 0]
  /\ closureIsReading = [s \in Sessions |-> FALSE]
  /\ closureSpeechRate = [s \in Sessions |-> DefaultSpeechRate]
  /\ closureSelectedVoice = [s \in Sessions |-> 0]
  /\ dispatchedSpeech = [s \in Sessions |-> <<>>]
  /\ dispatched = [s \in Sessions |-> <<>>]
  /\ timers = <<>>
  /\ engineQueue = <<>>
  /\ headStarted = FALSE
  /\ cancelled = {}
  /\ stopped = {}
  /\ errored = {}

\* The host's useState values: it has been told of no change yet.
InitHost ==
  /\ hostFontSize = Num(0)
  /\ hostHighContrast = Bool(FALSE)
  /\ hostLineHeight = Num(0)

\* useState values of the drag state, in a desktop window that is not
\* resized.
InitDrag ==
  /\ isMobile = FALSE
  /\ isDragging = FALSE
  /\ position = [x |-> 16, y |-> 100]
  /\ startPos = [x |-> 0, y |-> 0]
  /\ viewport = [w |-> 1024, h |-> 768]

\* The panel is open on a platform with speech and one Romanian voice.
InitPanelOpen ==
  /\ hasSpeech = TRUE
  /\ isPanelOpen = TRUE
  /\ availableRomanianVoices = 1
  /\ selectedVoice = 1

\* useState initial values, before any effect has run.
InitSettingsState ==
  /\ fontSize = DefaultFontSize
  /\ highContrast = DefaultHighContrast
  /\ lineHeight = DefaultLineHeight
  /\ speechRate = DefaultSpeechRate
  /\ bodyClasses = {}

\* The first render, over any stored record.
InitSettings ==
  /\ InitSettingsState
  /\ storage \in InitialStorages
  /\ storage0 = storage
  /\ loadOutcome = "none"
  /\ saveOutcome = "none"
  /\ mountPc = "load"
  /\ InitPlayback
  /\ InitHost
  /\ InitDrag
  /\ hasSpeech \in BOOLEAN
  /\ isPanelOpen = TRUE
  /\ availableRomanianVoices = 0
  /\ selectedVoice = 0

\* The settings controls, the panel being open, on a platform with one
\* Romanian voice.
NextSettings ==
  \/ \E readThrows \in BOOLEAN : LoadSettingsEffect(readThrows)
  \/ \E writeThrows \in BOOLEAN : SaveSettingsEffectAtMount(writeThrows)
  \/ VoiceSetupEffect(1, 1)
  \/ \E writeThrows \in BOOLEAN : SaveSettingsEffectAfterLoad(writeThrows)
  \/ handleFontSizeChange
  \/ handleContrastToggle
  \/ handleLineHeightChange
  \/ handleSpeechRateChange
  \/ resetAllSettings

SpecSettings == InitSettings /\ [][NextSettings]_vars

\* The class functions applied to the body: any set of the widget's classes
\* may be on the body before (a page that was given them by an earlier mount
\* of the widget), and the value applied is any value a setting can hold.
InitDom ==
  /\ bodyClasses \in SUBSET AllClasses
  /\ fontSize \in StoredFontSizes \ {Undefined}
  /\ highContrast \in StoredContrasts \ {Undefined}
  /\ lineHeight \in StoredLineHeights \ {Undefined}
  /\ speechRate = DefaultSpeechRate
  /\ storage = StoredObject(fontSize, highContrast, lineHeight)
  /\ storage0 = storage
  /\ loadOutcome = "none"
  /\ saveOutcome = "none"
  /\ mountPc = "apply"
  /\ InitPlayback
  /\ InitHost
  /\ InitDrag
  /\ InitPanelOpen

ApplyFontSize ==
  /\ mountPc = "apply"
  /\ bodyClasses' = applyFontSizeClass(bodyClasses, fontSize)
  /\ UNCHANGED <<fontSize, highContrast, lineHeight, speechRate, storage,
                 storage0, loadOutcome, saveOutcome, mountPc, playbackVars,
                 notice, uiVars, extVars>>

ApplyHighContrast ==
  /\ mountPc = "apply"
  /\ bodyClasses' = applyHighContrastClass(bodyClasses, highContrast)
  /\ UNCHANGED <<fontSize, highContrast, lineHeight, speechRate, storage,
                 storage0, loadOutcome, saveOutcome, mountPc, playbackVars,
                 notice, uiVars, extVars>>

ApplyLineHeight ==
  /\ mountPc = "apply"
  /\ bodyClasses' = applyLineHeightClass(bodyClasses, lineHeight)
  /\ UNCHANGED <<fontSize, highContrast, lineHeight, speechRate, storage,
                 storage0, loadOutcome, saveOutcome, mountPc, playbackVars,
                 notice, uiVars, extVars>>

NextDom == ApplyFontSize \/ ApplyHighContrast \/ ApplyLineHeight

SpecDom == InitDom /\ [][NextDom]_vars

\* The widget mounted on a page with nothing stored: the settings are the
\* defaults and the mount-time save has written them.
Init ==
  /\ InitSettingsState
  /\ storage0 = NoRecord("missing")
  /\ storage = SettingsRecord(DefaultFontSize, DefaultHighContrast,
                              DefaultLineHeight)
  /\ loadOutcome = "ok"
  /\ saveOutcome = "ok"
  /\ mountPc = "ready"
  /\ InitPlayback
  /\ InitHost
  /\ InitDrag
  /\ InitPanelOpen

Next ==
  \/ ReadAloudStop
  \/ \E text \in PageTexts : ReadAloudStart(text)
  \/ \E i \in 1..Len(timers) : SpeakNextTimer(i)
  \/ \E i \in 1..Len(timers) : ResetProgressTimer(i)
  \/ UtteranceStart
  \/ UtteranceEnd
  \/ UtteranceError
  \/ \E s \in cancelled : CancelledEnd(s)
  \/ \E s \in cancelled : CancelledError(s)
  \/ resetAllSettings

Spec == Init /\ [][Next]_vars

\* start() over every text: the handler and the timer that dispatches the
\* first chunk.
NextStart ==
  \/ ReadAloudStop
  \/ \E text \in Texts : ReadAloudStart(text)
  \/ \E i \in 1..Len(timers) : SpeakNextTimer(i)

SpecStart == Init /\ [][NextStart]_vars

\* The whole widget: the mount over nothing stored, on a platform with or
\* without speech, then clicks and key presses on the controls, timers, and
\* the events of the speech engine.  Storage works (no read or write throws;
\* SpecSettings has the stored records and the storage calls that throw),
\* and at most MaxUiSessions sessions are started.
InitUi ==
  /\ InitSettingsState
  /\ storage = NoRecord("missing")
  /\ storage0 = storage
  /\ loadOutcome = "none"
  /\ saveOutcome = "none"
  /\ mountPc = "load"
  /\ InitPlayback
  /\ InitHost
  /\ InitDrag
  /\ hasSpeech \in BOOLEAN
  /\ isPanelOpen = FALSE
  /\ availableRomanianVoices = 0
  /\ selectedVoice = 0

UiBounded == saveOutcome' # "threw" /\ nSessions' <= MaxUiSessions

NextUi ==
  \/ LoadSettingsEffect(FALSE)
  \/ SaveSettingsEffectAtMount(FALSE)
  \/ \E n \in 0..MaxVoices, best \in 1..MaxVoices : VoiceSetupEffect(n, best)
  \/ \E n \in 0..MaxVoices : VoicesChanged(n, 1)
  \/ \E c \in Controls : Click(c) /\ UiBounded
  \/ \E c \in Controls, key \in Keys : KeyDown(c, key) /\ UiBounded
  \/ \E i \in 1..Len(timers) : SpeakNextTimer(i)
  \/ \E i \in 1..Len(timers) : ResetProgressTimer(i)
  \/ UtteranceStart
  \/ UtteranceEnd
  \/ UtteranceError
  \/ \E s \in cancelled : CancelledEnd(s)
  \/ \E s \in cancelled : CancelledError(s)

SpecUi == InitUi /\ [][NextUi]_vars

\* A pending timer fires: the event loop runs every due callback.
FairSpec ==
  /\ Spec
  /\ WF_vars(\E i \in 1..Len(timers) : SpeakNextTimer(i))
  /\ WF_vars(\E i \in 1..Len(timers) : ResetProgressTimer(i))

\* The JSX variant mounted: nothing is loaded or stored.
InitJsx ==
  /\ InitSettingsState
  /\ storage0 = NoRecord("missing")
  /\ storage = NoRecord("missing")
  /\ loadOutcome = "none"
  /\ saveOutcome = "none"
  /\ mountPc = "ready"
  /\ InitPlayback
  /\ InitHost
  /\ InitDrag
  /\ InitPanelOpen

\* No utterance reaches the engine in this variant (C4_JsxNeverSpeaks), so
\* the engine has no event to deliver.
NextJsx ==
  \/ ReadAloudStopJsx
  \/ \E text \in Texts : ReadAloudStartJsx(text)
  \/ \E i \in 1..Len(timers) : SpeakNextTimerJsx(i)
  \/ handleFontSizeChangeJsx
  \/ resetAllSettingsJsx

SpecJsx == InitJsx /\ [][NextJsx]_vars

\* A pending timer fires: the event loop runs every due callback.
FairSpecJsx ==
  SpecJsx /\ \A i \in 1..MaxSessions : WF_vars(SpeakNextTimerJsx(i))

\* The widget mounted on a platform whose voice list holds MaxVoices Romanian
\* voices, the first of them selected.
InitSpeech ==
  /\ InitSettingsState
  /\ storage0 = NoRecord("missing")
  /\ storage = SettingsRecord(DefaultFontSize, DefaultHighContrast,
                              DefaultLineHeight)
  /\ loadOutcome = "ok"
  /\ saveOutcome = "ok"
  /\ mountPc = "ready"
  /\ InitPlayback
  /\ InitHost
  /\ InitDrag
  /\ hasSpeech = TRUE
  /\ isPanelOpen = TRUE
  /\ availableRomanianVoices = MaxVoices
  /\ selectedVoice = 1

\* Read aloud with the speech-rate and the voice button.
NextSpeech ==
  \/ Next
  \/ handleSpeechRateChange
  \/ handleVoiceChange

SpecSpeech == InitSpeech /\ [][NextSpeech]_vars

\* The widget mounted in a window of any of the viewports: the mobile effect
\* and the position effect have run.
InitLayout ==
  /\ InitSettingsState
  /\ storage0 = NoRecord("missing")
  /\ storage = SettingsRecord(DefaultFontSize, DefaultHighContrast,
                              DefaultLineHeight)
  /\ loadOutcome = "ok"
  /\ saveOutcome = "ok"
  /\ mountPc = "ready"
  /\ InitPlayback
  /\ InitHost
  /\ InitPanelOpen
  /\ viewport \in Viewports
  /\ isMobile = (viewport.w <= MobileBreakpoint)
  /\ isDragging = FALSE
  /\ position = Corner(isMobile, viewport)
  /\ startPos = [x |-> 0, y |-> 0]

NextDrag ==
  \/ \E view \in Viewports : Resize(view)
  \/ \E p \in Pointers : handleMouseDown(p)
  \/ \E p \in Pointers : handleMouseMove(p)
  \/ handleMouseUp

SpecDrag == InitLayout /\ [][NextDrag]_vars

\* The native component mounted in its host, over any stored record.
InitNative ==
  /\ InitSettingsState
  /\ storage \in InitialStorages
  /\ storage0 = storage
  /\ loadOutcome = "none"
  /\ saveOutcome = "none"
  /\ mountPc = "load"
  /\ InitPlayback
  /\ InitHost
  /\ InitDrag
  /\ InitPanelOpen

NextNative ==
  \/ \E readThrows \in BOOLEAN : loadSettingsNative(readThrows)
  \/ \E writeThrows \in BOOLEAN : saveSettingsNativeAtMount(writeThrows)
  \/ \E writeThrows \in BOOLEAN : saveSettingsNativeAfterLoad(writeThrows)
  \/ handleFontSizeChangeNative
  \/ handleContrastToggleNative
  \/ handleLineHeightChangeNative
  \/ resetAllSettingsNative

SpecNative == InitNative /\ [][NextNative]_vars

(***************************************************************************)
(* Properties.                                                             *)
(***************************************************************************)
\* Sessions with a pending speak timer or an utterance at the engine.
OutstandingSessions ==
  {s \in Sessions :
     \/ \E i \in 1..Len(timers) :
          timers[i].sess = s /\ timers[i].kind \in {"start", "next"}
     \/ s \in Range(engineQueue)}

\* Session s was stopped, or a later start() has superseded it.
Stale(s) == s \in stopped \/ s < nSessions

\* C1: at most one playback session has an utterance or a pending speak timer
\* outstanding, and a session that was stopped or superseded dispatches no
\* further chunk.
C1_SingleSession ==
  /\ [](Cardinality(OutstandingSessions) <= 1)
  /\ [][\A s \in Sessions : Stale(s) => dispatched'[s] = dispatched[s]]_vars

\* C2: within a session chunk i+1 is dispatched only after the end callback of
\* chunk i has fired (currentIndex counts the end callbacks), and the engine
\* never holds two utterances of the widget.
C2_Sequential ==
  /\ \A s \in Sessions :
       /\ \A k \in 1..Len(dispatched[s]) : dispatched[s][k] = k - 1
       /\ Len(dispatched[s]) <= currentIndex[s] + 1
  /\ Len(engineQueue) <= 1

C5_ErrorEndsSession ==
  [][/\ (errored' # errored) =>
          (~isReading' /\ readingProgress' = 0 /\ notice' = "error")
     /\ \A s \in errored : dispatched'[s] = dispatched[s]
     /\ (nSessions' # nSessions /\ errored # {}) =>
          /\ isReading' /\ isReadingRef'
          /\ readingProgress' = 0
          /\ currentIndex'[nSessions'] = 0
          /\ dispatched'[nSessions'] = <<>>
          /\ timers'[Len(timers')] = Timer("start", nSessions')]_vars

\* A session failed at its second chunk, and the session started after it has
\* had its first chunk dispatched.
C5_Witness ==
  \E s \in errored :
    /\ currentIndex[s] = 1
    /\ s < nSessions
    /\ dispatched[nSessions] = <<0>>

\* Session s, once started, runs to completion: every chunk dispatched once,
\* in index order, and status Idle again.
Completed(s) ==
  /\ dispatched[s] = [k \in 1..Len(chunks[s]) |-> k - 1]
  /\ ~isReading

\* C4: a session that is started and neither stopped nor failed by the engine
\* eventually has had chunks 0..n-1 dispatched, each once and in order, with
\* status back to Idle (timers fire: FairSpecJsx).
C4_RunsToCompletion ==
  \A s \in Sessions :
    [](s <= nSessions => <>(s \in stopped \/ s \in errored \/ Completed(s)))

\* In the JSX variant no session ever hands a chunk to the engine.
C4_JsxNeverSpeaks ==
  /\ engineQueue = <<>>
  /\ cancelled = {}
  /\ \A s \in Sessions : dispatched[s] = <<>>

\* C6: every setting always holds a legal value: the levels are 0, 1 or 2,
\* the contrast flag is a boolean, the speech rate is one of the four rates.
C6_LegalSettings ==
  /\ fontSize \in LegalLevels
  /\ lineHeight \in LegalLevels
  /\ highContrast \in LegalFlags
  /\ speechRate \in Range(rates)

\* The stored record is a JSON object whose properties, where present, are
\* legal values.
LegalRecord(record) ==
  /\ record.kind = "object"
  /\ record.fontSize \in LegalLevels \cup {Undefined}
  /\ record.highContrast \in LegalFlags \cup {Undefined}
  /\ record.lineHeight \in LegalLevels \cup {Undefined}

\* The classes the settings fs, hc, lh stand for.
ImpliedClasses(fs, hc, lh) ==
  {c \in AllClasses :
     \/ c = "font-size-larger" /\ fs = Num(1)
     \/ c = "font-size-largest" /\ fs = Num(2)
     \/ c = "high-contrast" /\ Truthy(hc)
     \/ c = "line-height-larger" /\ lh = Num(1)
     \/ c = "line-height-largest" /\ lh = Num(2)}

C8_StorageMirrorsSettings ==
  (mountPc = "ready" /\ saveOutcome = "ok") =>
    storage = StoredObject(fontSize, highContrast, lineHeight)

\* C9: after mount the accessibility classes on the body are exactly those of
\* the current settings (a level is compared with ===, the flag is read as
\* `if (highContrast)` reads it).
C9_ClassesMatchSettings ==
  mountPc = "ready" =>
    bodyClasses = ImpliedClasses(fontSize, highContrast, lineHeight)

\* The font size was loaded as 2 and cycled twice, to 1: only the class of
\* level 1 is on the body, with the classes of the other two settings.
C9_Witness ==
  /\ mountPc = "ready"
  /\ storage0 = StoredObject(Num(2), Bool(TRUE), Num(2))
  /\ <<fontSize, highContrast, lineHeight>> = <<Num(1), Bool(TRUE), Num(2)>>
  /\ bodyClasses = {"font-size-larger", "high-contrast", "line-height-largest"}

\* C10: three cycleFontSize() calls, three cycleLineHeight() calls, four
\* cycleSpeechRate() calls and two toggleContrast() calls each return the
\* setting to the value it had, and the rate after 0.6, 0.8, 1.0, 1.2 is
\* 0.8, 1.0, 1.2, 0.6.
C10_CyclesReturn ==
  mountPc = "ready" =>
    /\ JsPlus1Mod3(JsPlus1Mod3(JsPlus1Mod3(fontSize))) = fontSize
    /\ JsPlus1Mod3(JsPlus1Mod3(JsPlus1Mod3(lineHeight))) = lineHeight
    /\ NextRate(NextRate(NextRate(NextRate(speechRate)))) = speechRate
    /\ JsNot(JsNot(highContrast)) = highContrast
    /\ \A i \in 1..Len(rates) : NextRate(rates[i]) = rates[(i % Len(rates)) + 1]

\* C11: applying the class functions for the same settings a second time
\* leaves the body's class set as the first application left it, for each of
\* the three functions and for the three in a row, whatever classes the body
\* had before.
C11_ApplyIsIdempotent ==
  LET once == applyAllClasses(bodyClasses, fontSize, highContrast, lineHeight)
      size == applyFontSizeClass(bodyClasses, fontSize)
      contrast == applyHighContrastClass(bodyClasses, highContrast)
      height == applyLineHeightClass(bodyClasses, lineHeight)
  IN /\ applyAllClasses(once, fontSize, highContrast, lineHeight) = once
     /\ applyFontSizeClass(size, fontSize) = size
     /\ applyHighContrastClass(contrast, highContrast) = contrast
     /\ applyLineHeightClass(height, lineHeight) = height

\* The three functions have been applied over a body that had the classes of
\* other values: only the classes of the settings are left.
C11_Witness ==
  /\ mountPc = "apply"
  /\ <<fontSize, highContrast, lineHeight>> = <<Num(2), Bool(TRUE), Num(1)>>
  /\ bodyClasses = {"font-size-largest", "high-contrast", "line-height-larger"}

\* C12: when the key is missing, the stored string does not parse (or parses
\* to null) or the read throws, the load effect ends normally: the mount goes
\* on to its next effect, no alert is raised, every setting is still its
\* default and the body has the classes it had.
C12_LoadNeverFails ==
  [][(/\ mountPc = "load" /\ mountPc' # "load"
      /\ storage.kind # "object" \/ loadOutcome' = "threw") =>
       /\ mountPc' = "save"
       /\ notice' = "none"
       /\ <<fontSize', highContrast', lineHeight', speechRate'>> =
            <<DefaultFontSize, DefaultHighContrast, DefaultLineHeight,
              DefaultSpeechRate>>
       /\ bodyClasses' = bodyClasses
       /\ bodyClasses' \cap AllClasses = {}]_vars

\* The read threw over a stored record that holds non-default values: the
\* mount completed with the defaults, and the font-size control then worked.
C12_Witness ==
  /\ mountPc = "ready"
  /\ loadOutcome = "threw"
  /\ storage0 = StoredObject(Num(2), Bool(TRUE), Num(1))
  /\ <<fontSize, highContrast, lineHeight>> = <<Num(1), Bool(FALSE), Num(0)>>
  /\ bodyClasses = {"font-size-larger"}

\* A step of a mounted widget in which a write was tried and threw.
WriteThrew ==
  /\ mountPc = "ready"
  /\ saveOutcome' = "threw"
  /\ \/ saveOutcome # "threw"
     \/ <<fontSize', highContrast', lineHeight'>> # <<fontSize, highContrast, lineHeight>>
     \/ bodyClasses' # bodyClasses

\* C13: in a step whose write threw, the setting has its new value (the next
\* of its cycle, or the defaults of a reset), the body has the classes of the
\* new settings, no alert is raised, the widget stays mounted and storage keeps
\* the record it had; and the next write that succeeds stores the settings as
\* they then are, the values of the failed write included.
C13_WriteFailureKeepsChange ==
  [][/\ WriteThrew =>
          /\ \/ fontSize' = JsPlus1Mod3(fontSize) /\ fontSize' # fontSize
             \/ highContrast' = JsNot(highContrast) /\ highContrast' # highContrast
             \/ lineHeight' = JsPlus1Mod3(lineHeight) /\ lineHeight' # lineHeight
             \/ /\ <<fontSize', highContrast', lineHeight'>> =
                     <<DefaultFontSize, DefaultHighContrast, DefaultLineHeight>>
                /\ <<fontSize, highContrast, lineHeight>> #
                     <<DefaultFontSize, DefaultHighContrast, DefaultLineHeight>>
          /\ bodyClasses' = ImpliedClasses(fontSize', highContrast', lineHeight')
          /\ notice' = "none"
          /\ mountPc' = "ready"
          /\ storage' = storage
     /\ (mountPc = "ready" /\ saveOutcome = "threw" /\ saveOutcome' = "ok") =>
          storage' = SettingsRecord(fontSize', highContrast', lineHeight')]_vars

\* The write of a font-size change threw: the record stored at mount is still
\* in storage, and the size and its class are the new ones.
C13_Witness ==
  /\ mountPc = "ready"
  /\ saveOutcome = "threw"
  /\ storage0 = NoRecord("missing")
  /\ storage = StoredObject(Num(0), Bool(FALSE), Num(0))
  /\ <<fontSize, highContrast, lineHeight>> = <<Num(1), Bool(FALSE), Num(0)>>
  /\ bodyClasses = {"font-size-larger"}

\* C14: every chunk of every session is at most ChunkLimit characters long.
C14_ChunkBound ==
  \A s \in Sessions :
    \A k \in 1..Len(chunks[s]) : ChunkLength(chunks[s][k]) <= ChunkLimit

\* C15: the step that raises the no-content alert is taken from Idle and
\* leaves the status Idle, the progress as it was, and creates no session,
\* timer or utterance.
C15_NoContentIsRejected ==
  [][notice' = "noContent" =>
       /\ ~isReading /\ ~isReading'
       /\ isReadingRef' = isReadingRef
       /\ readingProgress' = readingProgress
       /\ nSessions' = nSessions
       /\ timers' = timers
       /\ engineQueue' = engineQueue
       /\ dispatched' = dispatched]_vars

\* Read aloud was pressed on a page without text while the progress of the
\* session that had just completed was still 100.
C15_Witness ==
  /\ notice = "noContent"
  /\ ~isReading
  /\ readingProgress = 100
  /\ nSessions = 1

\* The pending 2 s timers among ts.
ResetTimers(ts) == {i \in 1..Len(ts) : ts[i].kind = "reset"}

\* C18: the step in which the end callback of the last chunk of a session
\* that was not stopped runs makes the status Idle and the progress 100 and
\* leaves the session's 2 s timer pending; the step in which a 2 s timer fires
\* sets the progress to 0 and leaves the status as it is; and a progress of
\* 100 is always followed by a progress of 0.
C18_CompletionThenReset ==
  /\ [][/\ \A s \in Sessions :
             (/\ s \notin stopped
              /\ currentIndex'[s] = currentIndex[s] + 1
              /\ currentIndex'[s] = Len(chunks[s])) =>
               /\ ~isReading'
               /\ readingProgress' = 100
               /\ Timer("reset", s) \in Range(timers')
        /\ Cardinality(ResetTimers(timers')) < Cardinality(ResetTimers(timers)) =>
             readingProgress' = 0 /\ isReading' = isReading]_vars
  /\ (readingProgress = 100) ~> (readingProgress = 0)

\* The session has completed, its 2 s timer has fired, and nothing was
\* pressed in between: Idle, progress 0.
C18_Witness ==
  /\ nSessions = 1
  /\ Completed(1)
  /\ stopped = {}
  /\ ~isReading
  /\ readingProgress = 0
  /\ timers = <<>>

C17_MountSurvivesNoSpeech == ~hasSpeech => mountPc # "crashed"

C21_HostHasCurrentSettings ==
  mountPc = "ready" =>
    <<hostFontSize, hostHighContrast, hostLineHeight>> =
      <<fontSize, highContrast, lineHeight>>

\* C22: every utterance a session dispatches has the speech rate and the
\* voice that were selected when the session was started, whatever was
\* selected since.
C22_SessionKeepsVoiceAndRate ==
  \A s \in Sessions :
    \A i \in 1..Len(dispatchedSpeech[s]) :
      dispatchedSpeech[s][i] =
        [rate |-> closureSpeechRate[s], voice |-> closureSelectedVoice[s]]

\* C23: the selected voice is always a member of the filtered voice list.
C23_SelectedVoiceInList ==
  selectedVoice # 0 => selectedVoice \in 1..availableRomanianVoices

\* C23, the cycle: with a list of n >= 2 voices a step of handleVoiceChange
\* selects the voice after the selected one, the first after the last; with
\* n <= 1 it leaves the selection alone.
C23_CycleNextWraps ==
  [][handleVoiceChange =>
       IF availableRomanianVoices >= 2
       THEN selectedVoice' = (selectedVoice % availableRomanianVoices) + 1
       ELSE selectedVoice' = selectedVoice]_vars

\* C24 as stated: the position changes only in a drag or when the layout
\* switches; on the non-mobile layout a position set in a drag has
\* 0 <= x <= viewport width - 60 and 0 <= y <= viewport height - 60; and on
\* the mobile layout no drag starts.
C24_DragWithinMargin ==
  [][/\ (position' # position /\ isMobile' = isMobile) =>
          /\ isDragging
          /\ ~isMobile =>
               /\ 0 <= position'.x /\ position'.x <= viewport.w - DragMargin
               /\ 0 <= position'.y /\ position'.y <= viewport.h - DragMargin
     /\ (isMobile /\ ~isDragging) => ~isDragging']_vars

Max0(v) == IF v > 0 THEN v ELSE 0

\* C24 amended: as C24_DragWithinMargin, with the upper bounds
\* max(0, viewport width - 60) and max(0, viewport height - 60): in a viewport
\* smaller than the margin the position is 0.
C24_DragWithinMarginOrZero ==
  [][/\ (position' # position /\ isMobile' = isMobile) =>
          /\ isDragging
          /\ ~isMobile =>
               /\ 0 <= position'.x
               /\ position'.x <= Max0(viewport.w - DragMargin)
               /\ 0 <= position'.y
               /\ position'.y <= Max0(viewport.h - DragMargin)
     /\ (isMobile /\ ~isDragging) => ~isDragging']_vars

\* A drag on the desktop layout has moved the panel to the far corner of the
\* viewport, and the button is released.
C24_Witness ==
  /\ ~isMobile /\ ~isDragging
  /\ viewport = [w |-> 1024, h |-> 768]
  /\ position = [x |-> 1024 - DragMargin, y |-> 768 - DragMargin]

\* C25, the persisted record: as in the script variant with a storage that
\* works, a step that changes the font size leaves the record of the new
\* settings in storage.
C25_JsxPersistsLikeScript ==
  [][fontSize' # fontSize =>
       storage' = SettingsRecord(fontSize', highContrast', lineHeight')]_vars

\* C26: the end or error event of a cancelled utterance whose session was
\* stopped or superseded changes neither the status nor the progress, raises
\* no error notice and dispatches no chunk.
C26_StaleCallbacksAreIgnored ==
  [][\A s \in Sessions :
       (Stale(s) /\ (CancelledEnd(s) \/ CancelledError(s))) =>
         /\ isReading' = isReading
         /\ readingProgress' = readingProgress
         /\ dispatched' = dispatched
         /\ notice' # "error"]_vars

\* The pieces of a text in document order: its sentences, then what follows
\* the last terminator.
TextPieces(text) ==
  [i \in 1..Len(text.sentences) |-> [pos |-> i, len |-> text.sentences[i]]] \o
    (IF text.tail > 0
     THEN <<[pos |-> Len(text.sentences) + 1, len |-> text.tail]>>
     ELSE <<>>)

RECURSIVE Concatenation(_)
Concatenation(chunkSeq) ==
  IF chunkSeq = <<>> THEN <<>>
  ELSE Head(chunkSeq) \o Concatenation(Tail(chunkSeq))

\* C27: the chunks of a session started on a text, concatenated in order, are
\* the pieces of that text, each once and in document order.
C27_ChunksCoverText ==
  [][\A text \in Texts :
       (ReadAloudStart(text) /\ ~NoContent(text)) =>
         Concatenation(chunks'[nSessions']) = TextPieces(text)]_vars

\* C28: while the status is Speaking the progress is
\* round(currentIndex / chunks.length * 100) for the index of the session
\* being read.
C28_ProgressIsDerived ==
  isReading =>
    readingProgress =
      Progress(currentIndex[nSessions], Len(chunks[nSessions]))

\* C28, monotonicity: a step that leaves the status Speaking in the same
\* session lowers neither the progress nor the index.
C28_ProgressNeverDecreases ==
  [][(isReading /\ isReading' /\ nSessions' = nSessions) =>
       /\ readingProgress' >= readingProgress
       /\ currentIndex'[nSessions] >= currentIndex[nSessions]]_vars

\* C29: a step of handleFontSizeChange leaves the other settings, the
\* selected voice, the classes of the other groups, the panel and the status
\* as they are; likewise handleContrastToggle, handleLineHeightChange and
\* handleSpeechRateChange; a step of the panel button changes no setting, no
\* class and nothing of the playback.
C29_SettingsAreIndependent ==
  [][/\ handleFontSizeChange =>
          /\ UNCHANGED <<highContrast, lineHeight, speechRate, selectedVoice,
                         isPanelOpen, isReading>>
          /\ bodyClasses' \ FontSizeClasses = bodyClasses \ FontSizeClasses
     /\ handleContrastToggle =>
          /\ UNCHANGED <<fontSize, lineHeight, speechRate, selectedVoice,
                         isPanelOpen, isReading>>
          /\ bodyClasses' \ {"high-contrast"} = bodyClasses \ {"high-contrast"}
     /\ handleLineHeightChange =>
          /\ UNCHANGED <<fontSize, highContrast, speechRate, selectedVoice,
                         isPanelOpen, isReading>>
          /\ bodyClasses' \ LineHeightClasses = bodyClasses \ LineHeightClasses
     /\ handleSpeechRateChange =>
          UNCHANGED <<fontSize, highContrast, lineHeight, selectedVoice,
                      bodyClasses, isPanelOpen, isReading>>
     /\ TogglePanel =>
          UNCHANGED <<fontSize, highContrast, lineHeight, speechRate,
                      selectedVoice, bodyClasses, playbackVars>>]_vars

\* Every setting was changed while a session is being read, and the panel
\* was closed: each class group holds its own class.
C29_Witness ==
  /\ mountPc = "ready"
  /\ ~isPanelOpen
  /\ isReading
  /\ <<fontSize, highContrast, lineHeight>> = <<Num(1), Bool(TRUE), Num(2)>>
  /\ speechRate = 12
  /\ bodyClasses = {"font-size-larger", "high-contrast", "line-height-largest"}

\* Session s was read to its last chunk without being stopped or failed.
RanToCompletion(s) ==
  /\ s \notin stopped \cup errored
  /\ dispatched[s] = [k \in 1..Len(chunks[s]) |-> k - 1]
  /\ currentIndex[s] = Len(chunks[s])

\* C30: the 2 s timer of a session that ran to completion, firing while a
\* later session is Speaking, leaves the progress as it is.
C30_ResetSparesNewSession ==
  [][\A i \in 1..Len(timers) :
       (/\ isReading
        /\ RanToCompletion(timers[i].sess)
        /\ ResetProgressTimer(i)) =>
         readingProgress' = readingProgress]_vars

=============================================================================
